---- MODULE Spec2Model ----
(***************************************************************************)
(* Model of src/everything_powershell/init_blend.py, a script run inside   *)
(* Blender's embedded Python:                                              *)
(*                                                                         *)
(*   1  import bpy, os                                                     *)
(*   2  filepath = os.path.join(os.getcwd(), "my_scene.blend")             *)
(*   3  bpy.ops.wm.save_as_mainfile(filepath=filepath)                     *)
(*   4  print(f"Saved {filepath}")                                         *)
(*   5  # no sys.exit() -> Blender will stay open                          *)
(*                                                                         *)
(* Strings are sequences of one-character strings, so that joining and     *)
(* formatting are computed rather than assumed.  The script runs on the    *)
(* host's thread; the host acts only while the script is blocked inside    *)
(* the save-as call (pc = "saving").                                       *)
(***************************************************************************)
EXTENDS Integers, Sequences, FiniteSets, TLC

VARIABLES
    pc,          \* position of the script: line1 .. line5, saving, done, failed
    cwd,         \* the process's current working directory
    cwdRead,     \* the value os.getcwd() returned at line 2 (<<>> before)
    filepath,    \* the script's variable filepath (<<>> while unbound)
    saveCalls,   \* the filepath arguments of the save_as_mainfile calls made
    saveResult,  \* "none", "pending", "FINISHED" or "RuntimeError"
    stdout,      \* the lines written to standard output
    files,       \* the paths of the files that exist on disk
    doc,         \* the host's open document: data, filepath, dirty
    hostRunning, \* FALSE once the script has asked the host to exit
    chdirs       \* number of directory changes the host made during the save

vars == <<pc, cwd, cwdRead, filepath, saveCalls, saveResult, stdout, files,
          doc, hostRunning, chdirs>>

----------------------------------------------------------------------------
(* Bounds *)

\* deepest working directory, in path components
MaxDepth == 2

\* directory changes the host may make while the save is running
MaxChdir == 1

----------------------------------------------------------------------------
(* Strings and paths *)

Sep == <<"/">>

FileName == <<"m","y","_","s","c","e","n","e",".","b","l","e","n","d">>

SavedPrefix == <<"S","a","v","e","d"," ">>

Unbound == <<>>

DirNames == { <<"t","m","p">>, <<"p","r","o","j">> }

StartsWith(s, p) == Len(s) >= Len(p) /\ SubSeq(s, 1, Len(p)) = p

EndsWith(s, p) == Len(s) >= Len(p) /\ SubSeq(s, Len(s) - Len(p) + 1, Len(s)) = p

\* the absolute path of the directory with the given components; the root for none
RECURSIVE AbsPath(_)
AbsPath(comps) ==
    IF comps = <<>> THEN Sep
    ELSE IF Len(comps) = 1 THEN Sep \o comps[1]
    ELSE AbsPath(SubSeq(comps, 1, Len(comps) - 1)) \o Sep \o comps[Len(comps)]

\* the values os.getcwd() can return: normalised absolute paths, where only
\* the root ends in a separator
CwdSet == { AbsPath(c) : c \in UNION { [1..n -> DirNames] : n \in 0..MaxDepth } }

JoinNaive(a, b) == a \o Sep \o b

\* os.path.join(a, b) of posixpath
Join(a, b) ==
    IF StartsWith(b, Sep) THEN b
    ELSE IF a = <<>> \/ EndsWith(a, Sep) THEN a \o b
    ELSE a \o Sep \o b

\* f"Saved {p}"
SavedLine(p) == SavedPrefix \o p

DocData == {"scene1", "scene2"}

----------------------------------------------------------------------------
(* Initial state: the host is running with a document open, the script is   *)
(* about to start                                                           *)

Init ==
    /\ pc = "line1"
    /\ cwd \in CwdSet
    /\ cwdRead = Unbound
    /\ filepath = Unbound
    /\ saveCalls = <<>>
    /\ saveResult = "none"
    /\ stdout = <<>>
    /\ \E existing \in BOOLEAN :
          files = IF existing THEN {Join(cwd, FileName)} ELSE {}
    /\ \E d \in DocData, dirty \in BOOLEAN, saved \in BOOLEAN :
          doc = [data |-> d,
                 filepath |-> IF saved THEN Join(cwd, FileName) ELSE Unbound,
                 dirty |-> dirty]
    /\ hostRunning = TRUE
    /\ chdirs = 0

----------------------------------------------------------------------------
(* The script *)

\* line 1: import bpy, os
Import ==
    /\ pc = "line1"
    /\ pc' = "line2"
    /\ UNCHANGED <<cwd, cwdRead, filepath, saveCalls, saveResult, stdout,
                   files, doc, hostRunning, chdirs>>

ComputePathChdir ==
    /\ pc = "line2"
    /\ cwdRead' = cwd
    /\ filepath' = Join(cwd, FileName)
    /\ cwd' = Sep
    /\ pc' = "line3"
    /\ UNCHANGED <<saveCalls, saveResult, stdout, files, doc, hostRunning,
                   chdirs>>

\* line 2: filepath = os.path.join(os.getcwd(), "my_scene.blend")
ComputePath ==
    /\ pc = "line2"
    /\ cwdRead' = cwd
    /\ filepath' = Join(cwd, FileName)
    /\ pc' = "line3"
    /\ UNCHANGED <<cwd, saveCalls, saveResult, stdout, files, doc,
                   hostRunning, chdirs>>

CallSavePrintFirst ==
    /\ pc = "line3"
    /\ stdout' = Append(stdout, SavedLine(filepath))
    /\ saveCalls' = Append(saveCalls, filepath)
    /\ saveResult' = "pending"
    /\ pc' = "saving"
    /\ UNCHANGED <<cwd, cwdRead, filepath, files, doc, hostRunning, chdirs>>

\* line 3, the call: bpy.ops.wm.save_as_mainfile(filepath=filepath)
CallSave ==
    /\ pc = "line3"
    /\ saveCalls' = Append(saveCalls, filepath)
    /\ saveResult' = "pending"
    /\ pc' = "saving"
    /\ UNCHANGED <<cwd, cwdRead, filepath, stdout, files, doc, hostRunning,
                   chdirs>>

\* the host changes the working directory while it saves (a save handler)
HostChdir ==
    /\ pc = "saving"
    /\ chdirs < MaxChdir
    /\ \E d \in CwdSet : d # cwd /\ cwd' = d
    /\ chdirs' = chdirs + 1
    /\ UNCHANGED <<pc, cwdRead, filepath, saveCalls, saveResult, stdout,
                   files, doc, hostRunning>>

\* line 3, the host writes the file and the call returns {'FINISHED'}
SaveSucceeds ==
    /\ pc = "saving"
    /\ files' = files \cup {saveCalls[Len(saveCalls)]}
    /\ doc' = [doc EXCEPT !.filepath = saveCalls[Len(saveCalls)],
                          !.dirty = FALSE]
    /\ saveResult' = "FINISHED"
    /\ pc' = "line4"
    /\ UNCHANGED <<cwd, cwdRead, filepath, saveCalls, stdout, hostRunning,
                   chdirs>>

SaveFailsSwallowed ==
    /\ pc = "saving"
    /\ saveResult' = "RuntimeError"
    /\ pc' = "line4"
    /\ UNCHANGED <<cwd, cwdRead, filepath, saveCalls, stdout, files, doc,
                   hostRunning, chdirs>>

SaveFailsRetried ==
    /\ pc = "saving"
    /\ saveResult' = "RuntimeError"
    /\ pc' = IF Len(saveCalls) < 2 THEN "line3" ELSE "failed"
    /\ UNCHANGED <<cwd, cwdRead, filepath, saveCalls, stdout, files, doc,
                   hostRunning, chdirs>>

\* line 3, the host's save fails: the call raises RuntimeError, which no
\* handler of the script catches, so the script ends there
SaveFails ==
    /\ pc = "saving"
    /\ saveResult' = "RuntimeError"
    /\ pc' = "failed"
    /\ UNCHANGED <<cwd, cwdRead, filepath, saveCalls, stdout, files, doc,
                   hostRunning, chdirs>>

PrintSavedRecomputed ==
    /\ pc = "line4"
    /\ stdout' = Append(stdout, SavedLine(Join(cwd, FileName)))
    /\ pc' = "line5"
    /\ UNCHANGED <<cwd, cwdRead, filepath, saveCalls, saveResult, files, doc,
                   hostRunning, chdirs>>

PrintSavedBare ==
    /\ pc = "line4"
    /\ stdout' = Append(stdout, filepath)
    /\ pc' = "line5"
    /\ UNCHANGED <<cwd, cwdRead, filepath, saveCalls, saveResult, files, doc,
                   hostRunning, chdirs>>

\* line 4: print(f"Saved {filepath}")
PrintSaved ==
    /\ pc = "line4"
    /\ stdout' = Append(stdout, SavedLine(filepath))
    /\ pc' = "line5"
    /\ UNCHANGED <<cwd, cwdRead, filepath, saveCalls, saveResult, files, doc,
                   hostRunning, chdirs>>

EndOfScriptExit ==
    /\ pc = "line5"
    /\ hostRunning' = FALSE
    /\ pc' = "done"
    /\ UNCHANGED <<cwd, cwdRead, filepath, saveCalls, saveResult, stdout,
                   files, doc, chdirs>>

\* line 5: the script ends without sys.exit(); control returns to the host
EndOfScript ==
    /\ pc = "line5"
    /\ pc' = "done"
    /\ UNCHANGED <<cwd, cwdRead, filepath, saveCalls, saveResult, stdout,
                   files, doc, hostRunning, chdirs>>

Next ==
    \/ Import
    \/ ComputePath
    \/ CallSave
    \/ HostChdir
    \/ SaveSucceeds
    \/ SaveFails
    \/ PrintSaved
    \/ EndOfScript

Spec == Init /\ [][Next]_vars

\* The interpreter runs the script's statements one after another, and the
\* host's synchronous save-as call returns or raises.
FairSpec ==
    /\ Spec
    /\ WF_vars(Import \/ ComputePath \/ CallSave \/ PrintSaved \/ EndOfScript)
    /\ WF_vars(SaveSucceeds \/ SaveFails)

----------------------------------------------------------------------------
(* Properties *)

TmpProj == <<"/","t","m","p","/","p","r","o","j">>

\* C1 as stated: the destination path is the working directory read at
\* line 2, followed by one separator and the file name, for every working
\* directory, the root included.
C1_PathIsCwdSepName ==
    filepath # Unbound => filepath = cwdRead \o Sep \o FileName

\* C1, amended: the destination path is the working directory followed by
\* one separator and the file name when the working directory does not end
\* in a separator, and the working directory followed directly by the file
\* name when it does (the root gives /my_scene.blend).
C1_PathJoinsCwdAndName ==
    filepath # Unbound =>
        /\ cwdRead[Len(cwdRead)] # "/" => filepath = cwdRead \o Sep \o FileName
        /\ cwdRead[Len(cwdRead)] = "/" => filepath = cwdRead \o FileName
        /\ cwdRead = TmpProj => filepath = TmpProj \o <<"/">> \o FileName

C1_Witness ==
    /\ pc = "line3"
    /\ cwdRead = <<"/">>
    /\ filepath = <<"/">> \o FileName

\* C2: after a run whose save-as succeeded, standard output holds exactly
\* one line, "Saved " followed by the computed destination path.
C2_ExactlyOneSavedLine ==
    (pc = "done" /\ saveResult = "FINISHED") =>
        /\ Len(stdout) = 1
        /\ stdout[1] = <<"S","a","v","e","d"," ">> \o filepath
        /\ filepath = Join(cwdRead, FileName)

C2_Witness ==
    /\ pc = "done"
    /\ saveResult = "FINISHED"
    /\ stdout = << <<"S","a","v","e","d"," ">> \o TmpProj \o <<"/">> \o FileName >>

\* C3: when the host's save-as fails, standard output never holds a
\* "Saved ..." line.
C3_NoLineAfterFailure ==
    saveResult = "RuntimeError" =>
        \A i \in 1..Len(stdout) : ~StartsWith(stdout[i], SavedPrefix)

C3_Witness ==
    /\ pc = "failed"
    /\ saveResult = "RuntimeError"
    /\ stdout = <<>>

\* C4: in every state of a run, successful or failed, the script has asked
\* for no termination of the host, which is still running.
C4_HostStaysOpen == hostRunning = TRUE

C4_Witness ==
    /\ pc = "done"
    /\ stdout # <<>>
    /\ hostRunning = TRUE

\* C5: save-as is invoked at most once per run, and a failure is not caught
\* or retried: once it has failed the script is stopped at the failure, with
\* nothing reported.
C5_FailurePropagates ==
    /\ Len(saveCalls) <= 1
    /\ saveResult = "RuntimeError" => (pc = "failed" /\ stdout = <<>>)

C5_Witness ==
    /\ pc = "failed"
    /\ Len(saveCalls) = 1
    /\ saveCalls[1] = filepath

\* C6: the confirmation line is on standard output only once the save-as
\* call has been made and has returned, and the path was computed before
\* the save-as call was made.
C6_PrintAfterSaveReturns ==
    /\ stdout # <<>> => (Len(saveCalls) = 1 /\ saveResult = "FINISHED")
    /\ saveCalls # <<>> => (filepath # Unbound /\ saveCalls[1] = filepath)
    /\ pc \in {"line1", "line2"} => (saveCalls = <<>> /\ stdout = <<>>)

C6_Witness ==
    /\ pc = "line5"
    /\ saveResult = "FINISHED"
    /\ stdout # <<>>

Completed ==
    /\ pc = "done"
    /\ saveResult = "FINISHED"
    /\ Len(stdout) = 1

Aborted ==
    /\ pc = "failed"
    /\ saveResult = "RuntimeError"
    /\ stdout = <<>>

\* C8: every run terminates, given that the host's save-as call returns or
\* fails, in one of exactly two outcomes: completed with the confirmation
\* printed, or aborted by the propagated save failure.
C8_Terminates == <>[](Completed \/ Aborted)

C8_Witness ==
    /\ Completed
    /\ chdirs > 0

\* C9: the path in the confirmation line is the path that was passed to
\* save-as, also when the working directory changed while the save ran.
C9_PrintedPathIsSavedPath ==
    stdout # <<>> =>
        /\ Len(saveCalls) = 1
        /\ stdout[1] = SavedPrefix \o saveCalls[1]

C9_Witness ==
    /\ stdout # <<>>
    /\ cwd # cwdRead

====
